---- MODULE Spec2Model ----
(***************************************************************************)
(* Model of the ambientweatherexporter observation translator              *)
(* (package weather: Parser.ServeHTTP, Parser.Parse and the gauge          *)
(* registry they write to).                                                *)
(*                                                                         *)
(* Representation                                                          *)
(*  - a raw query value is a tuple of one-character strings, so that       *)
(*    stripping CR/LF, strconv.ParseFloat and the UTF-8 check of a label   *)
(*    value are computed, not assumed;                                     *)
(*  - a gauge value is an integer number of thousandths (70 F = 70000);    *)
(*  - a series is <<family, label values>>; the registry maps the series   *)
(*    that exist to their values;                                          *)
(*  - Parse is the sequence of registry operations it performs, in program *)
(*    order, cut short where a panic is raised.                            *)
(*                                                                         *)
(* Specifications                                                          *)
(*  - Spec: requests served one after the other, each to completion;       *)
(*  - SpecHandlers: requests given as paths and served step by step, one   *)
(*    goroutine per connection, every gauge operation an atomic step;      *)
(*  - SpecCalc: the wind chill and heat index functions on a grid of       *)
(*    arguments, alone and through a report of the same readings.          *)
(***************************************************************************)
EXTENDS Integers, Sequences, FiniteSets, TLC

(***************************************************************************)
(* Bounds of the model                                                     *)
(***************************************************************************)
MaxCalls == 2

(***************************************************************************)
(* Program constants                                                       *)
(***************************************************************************)
NumSlots == 10

Range(s) == {s[i] : i \in DOMAIN s}

(***************************************************************************)
(* Strings                                                                 *)
(***************************************************************************)
LF == "\n"
CR == "\r"
\* a byte that is not part of any valid UTF-8 sequence (0xFF)
BadByte == "<FF>"
Digits == <<"0", "1", "2", "3", "4", "5", "6", "7", "8", "9">>

RECURSIVE Str(_)
\* the Go string made of the given characters
Str(cs) == IF cs = <<>> THEN "" ELSE Head(cs) \o Str(Tail(cs))

\* strings.ReplaceAll(s, old, "") for a one-character old
ReplaceAll(cs, old) == SelectSeq(cs, LAMBDA c : c # old)

\* the two ReplaceAll calls of parseString and parseValue
StripCRLF(cs) == ReplaceAll(ReplaceAll(cs, LF), CR)

DigitVal(c) == (CHOOSE i \in DOMAIN Digits : Digits[i] = c) - 1

RECURSIVE DecimalValue(_)
DecimalValue(cs) ==
    IF cs = <<>> THEN 0
    ELSE 10 * DecimalValue(SubSeq(cs, 1, Len(cs) - 1)) + DigitVal(cs[Len(cs)])

\* strconv.ParseFloat on the alphabet of the model: an unsigned run of
\* decimal digits parses, anything else (empty, a letter, a stray byte) fails
ParseFloatOk(cs) == cs # <<>> /\ \A i \in DOMAIN cs : cs[i] \in Range(Digits)
ParseFloat(cs) == DecimalValue(cs) * 1000

RECURSIVE Itoa(_)
\* strconv.Itoa for i >= 0
Itoa(i) == IF i < 10 THEN Digits[i + 1] ELSE Itoa(i \div 10) \o Digits[(i % 10) + 1]

\* utf8.ValidString, as client_golang applies it to every label value
ValidUTF8(cs) == \A i \in DOMAIN cs : cs[i] # BadByte

(***************************************************************************)
(* Derived quantities, in thousandths.  math.Pow and math.Log are          *)
(* tabulated at whole miles per hour and whole percent.                    *)
(***************************************************************************)
PowTable ==
    <<1000, 1117, 1192, 1248, 1294, 1332, 1365, 1395, 1421, 1445,
      1468, 1488, 1507, 1525, 1542, 1558, 1574, 1588, 1602, 1615,
      1628, 1640, 1651, 1663, 1674, 1684, 1694, 1704, 1714, 1723,
      1732, 1741, 1750, 1758, 1766, 1774, 1782, 1790, 1797, 1804,
      1812, 1819, 1825, 1832, 1839, 1845, 1852, 1858, 1864, 1870,
      1876, 1882, 1887, 1893, 1899, 1904, 1910, 1915, 1920, 1925>>

\* math.Pow(windSpeedMph, 0.16)
WindExp(w) == PowTable[w \div 1000]

LogTable ==
    <<-4605, -3912, -3507, -3219, -2996, -2813, -2659, -2526, -2408, -2303,
      -2207, -2120, -2040, -1966, -1897, -1833, -1772, -1715, -1661, -1609,
      -1561, -1514, -1470, -1427, -1386, -1347, -1309, -1273, -1238, -1204,
      -1171, -1139, -1109, -1079, -1050, -1022, -994, -968, -942, -916,
      -892, -868, -844, -821, -799, -777, -755, -734, -713, -693,
      -673, -654, -635, -616, -598, -580, -562, -545, -528, -511,
      -494, -478, -462, -446, -431, -416, -400, -386, -371, -357,
      -342, -329, -315, -301, -288, -274, -261, -248, -236, -223,
      -211, -198, -186, -174, -163, -151, -139, -128, -117, -105,
      -94, -83, -73, -62, -51, -41, -30, -20, -10, 0>>

\* math.Log(rh / 100)
LogPct(rh) == LogTable[rh \div 1000]

\* math.Sqrt of x thousandths, in thousandths
Sqrt(x) == CHOOSE r \in 0..1000 : r * r <= x * 1000 /\ (r + 1) * (r + 1) > x * 1000

Abs(x) == IF x < 0 THEN -x ELSE x

\* calculateWindChill with 50 in the place of 40
calculateWindChillBelow50(tempF, windSpeedMph) ==
    IF tempF > 50000 \/ windSpeedMph < 5000
    THEN tempF
    ELSE LET windExp == WindExp(windSpeedMph)
         IN  35740 + ((6215 * tempF) \div 10000)
                   - ((35750 * windExp) \div 1000)
                   + ((((4275 * tempF) \div 10000) * windExp) \div 1000)

calculateWindChill(tempF, windSpeedMph) ==
    IF tempF > 40000 \/ windSpeedMph < 5000
    THEN tempF
    ELSE LET windExp == WindExp(windSpeedMph)
         IN  35740 + ((6215 * tempF) \div 10000)
                   - ((35750 * windExp) \div 1000)
                   + ((((4275 * tempF) \div 10000) * windExp) \div 1000)

\* calculateHeatIndex with 70 in the place of the first 80
calculateHeatIndexFrom70(tempF, rh) ==
    IF tempF < 70000
    THEN tempF
    ELSE LET T  == tempF \div 1000
             R  == rh \div 1000
             simpleHI == (tempF + 61000 + (((tempF - 68000) * 12) \div 10)
                          + ((rh * 94) \div 1000)) \div 2
             hi == -42379
                   + ((2049015 * T) \div 1000)
                   + ((10143331 * R) \div 1000)
                   - ((((224755 * T) \div 10) * R) \div 100)
                   - ((6838 * T * T) \div 1000)
                   - ((54817 * R * R) \div 1000)
                   + ((((122874 * T * T) \div 1000) * R) \div 100)
                   + ((((((85282 * T) \div 100) * R) \div 10) * R) \div 100)
                   - ((199 * ((T * T * R * R) \div 100)) \div 1000)
         IN  IF simpleHI < 80000 THEN simpleHI
             ELSE IF rh < 13000 /\ tempF >= 80000 /\ tempF <= 112000
                  THEN hi - ((((13000 - rh) \div 4)
                              * Sqrt(((17000 - Abs(tempF - 95000)) * 1000) \div 17000)) \div 1000)
                  ELSE IF rh > 85000 /\ tempF >= 80000 /\ tempF <= 87000
                       THEN hi + ((((rh - 85000) \div 10) * ((87000 - tempF) \div 5)) \div 1000)
                       ELSE hi

calculateHeatIndex(tempF, rh) ==
    IF tempF < 80000
    THEN tempF
    ELSE LET T  == tempF \div 1000
             R  == rh \div 1000
             simpleHI == (tempF + 61000 + (((tempF - 68000) * 12) \div 10)
                          + ((rh * 94) \div 1000)) \div 2
             hi == -42379
                   + ((2049015 * T) \div 1000)
                   + ((10143331 * R) \div 1000)
                   - ((((224755 * T) \div 10) * R) \div 100)
                   - ((6838 * T * T) \div 1000)
                   - ((54817 * R * R) \div 1000)
                   + ((((122874 * T * T) \div 1000) * R) \div 100)
                   + ((((((85282 * T) \div 100) * R) \div 10) * R) \div 100)
                   - ((199 * ((T * T * R * R) \div 100)) \div 1000)
         IN  IF simpleHI < 80000 THEN simpleHI
             ELSE IF rh < 13000 /\ tempF >= 80000 /\ tempF <= 112000
                  THEN hi - ((((13000 - rh) \div 4)
                              * Sqrt(((17000 - Abs(tempF - 95000)) * 1000) \div 17000)) \div 1000)
                  ELSE IF rh > 85000 /\ tempF >= 80000 /\ tempF <= 87000
                       THEN hi + ((((rh - 85000) \div 10) * ((87000 - tempF) \div 5)) \div 1000)
                       ELSE hi

calculateDewPoint(tempF, rh) ==
    LET a == 17625
        b == 243040
        t == ((tempF - 32000) * 5) \div 9
        alpha == LogPct(rh) + ((a * t) \div (b + t))
    IN  ((((b * alpha) \div (a - alpha)) * 9) \div 5) + 32000

(***************************************************************************)
(* The gauge registry (client_golang GaugeVec), one family per metric kind *)
(***************************************************************************)
\* the label names each family is created with by NewParser
LabelNames ==
    [temperature           |-> <<"remote_adress", "name", "sensor">>,
     battery               |-> <<"remote_adress", "name", "sensor">>,
     humidity              |-> <<"remote_adress", "name", "sensor">>,
     barometer             |-> <<"remote_adress", "name", "type">>,
     wind_dir              |-> <<"remote_adress", "name", "period">>,
     wind_speed_mph        |-> <<"remote_adress", "name", "type">>,
     solar_radiation       |-> <<"remote_adress", "name">>,
     rain_in               |-> <<"remote_adress", "name", "period">>,
     ultraviolet           |-> <<"remote_adress", "name">>,
     lightning_strikes     |-> <<"remote_adress", "name", "period">>,
     lightning_last_strike |-> <<"remote_adress", "name">>,
     lightning_distance    |-> <<"remote_adress", "name">>,
     stationtype_info      |-> <<"remote_adress", "name", "type">>]

Families == DOMAIN LabelNames

\* GaugeVec.WithLabelValues(lvs...): the series is created at 0 when it is
\* accessed for the first time
WithLabelValues(vec, lvs) == [op |-> "with", vec |-> vec, lvs |-> lvs, value |-> 0]
\* Gauge.Set(value) on the gauge WithLabelValues returned
GaugeSet(vec, lvs, value) == [op |-> "set", vec |-> vec, lvs |-> lvs, value |-> value]
\* GaugeVec.DeleteLabelValues(lvs...)
DeleteLabelValues(vec, lvs) == [op |-> "delete", vec |-> vec, lvs |-> lvs, value |-> 0]

Without(registry, series) == [k \in (DOMAIN registry) \ {series} |-> registry[k]]

\* ApplyOp with Gauge.Add in the place of Gauge.Set
ApplyOpAdd(registry, o) ==
    LET series == <<o.vec, o.lvs>>
    IN  CASE o.op = "with" ->
               IF series \in DOMAIN registry THEN registry
               ELSE registry @@ (series :> o.value)
          [] o.op = "set" ->
               IF series \in DOMAIN registry
               THEN [registry EXCEPT ![series] = @ + o.value]
               ELSE registry
          [] o.op = "delete" ->
               IF Len(o.lvs) = Len(LabelNames[o.vec]) /\ series \in DOMAIN registry
               THEN Without(registry, series)
               ELSE registry

\* ApplyOp with a removal by name and sensor that takes the series of every
\* remote address
ApplyOpDeleteAnyRemote(registry, o) ==
    LET series == <<o.vec, o.lvs>>
    IN  CASE o.op = "with" ->
               IF series \in DOMAIN registry THEN registry
               ELSE registry @@ (series :> o.value)
          [] o.op = "set" ->
               IF series \in DOMAIN registry
               THEN [registry EXCEPT ![series] = o.value]
               ELSE registry
          [] o.op = "delete" ->
               [k \in {j \in DOMAIN registry :
                          ~(j[1] = o.vec /\ Len(j[2]) = Len(o.lvs) + 1
                                        /\ Tail(j[2]) = o.lvs)}
                   |-> registry[k]]

\* the effect of one registry operation.  DeleteLabelValues with a number
\* of label values other than the family's label count matches no series
\* and deletes nothing.
ApplyOp(registry, o) ==
    LET series == <<o.vec, o.lvs>>
    IN  CASE o.op = "with" ->
               IF series \in DOMAIN registry THEN registry
               ELSE registry @@ (series :> o.value)
          [] o.op = "set" ->
               IF series \in DOMAIN registry
               THEN [registry EXCEPT ![series] = o.value]
               ELSE registry
          [] o.op = "delete" ->
               IF Len(o.lvs) = Len(LabelNames[o.vec]) /\ series \in DOMAIN registry
               THEN Without(registry, series)
               ELSE registry

RECURSIVE ApplyOps(_, _)
\* the operations applied one after the other, in order: the first half
\* of them, then the second half on the registry the first half leaves
ApplyOps(registry, ops) ==
    IF ops = <<>> THEN registry
    ELSE IF Len(ops) = 1 THEN ApplyOp(registry, ops[1])
    ELSE LET half == Len(ops) \div 2
         IN  CHOOSE final \in
                 {ApplyOps(middle, rest) :
                      middle \in {ApplyOps(registry, SubSeq(ops, 1, half))},
                      rest \in {SubSeq(ops, half + 1, Len(ops))}} : TRUE

(***************************************************************************)
(* Parser.Parse                                                            *)
(***************************************************************************)
\* the nil error
Nil == <<>>

\* url.Values.Has
Has(values, key) == key \in DOMAIN values

parseString(values, key) ==
    IF ~Has(values, key)
    THEN [str |-> <<>>, err |-> <<"no such param", key>>]
    ELSE [str |-> StripCRLF(values[key][1]), err |-> Nil]

\* parseValue reading the last value of the field
parseValueLast(values, key) ==
    IF ~Has(values, key)
    THEN [value |-> 0, err |-> <<"no such param", key>>]
    ELSE LET first == StripCRLF(values[key][Len(values[key])])
         IN  IF ParseFloatOk(first)
             THEN [value |-> ParseFloat(first), err |-> Nil]
             ELSE [value |-> 0, err |-> <<"failed to parse value", key>>]

parseValue(values, key) ==
    IF ~Has(values, key)
    THEN [value |-> 0, err |-> <<"no such param", key>>]
    ELSE LET first == StripCRLF(values[key][1])
         IN  IF ParseFloatOk(first)
             THEN [value |-> ParseFloat(first), err |-> Nil]
             ELSE [value |-> 0, err |-> <<"failed to parse value", key>>]

\* updateGauge without the test of err: the zero that comes with an error
\* is written
updateGaugeAlways(vec, lvs, parsed) ==
    <<WithLabelValues(vec, lvs), GaugeSet(vec, lvs, parsed.value)>>

\* updateGauge(vec.WithLabelValues(lvs...))(parseValue(...)): the gauge is
\* looked up first, and set when the parse returned no error
updateGauge(vec, lvs, parsed) ==
    <<WithLabelValues(vec, lvs)>>
    \o (IF parsed.err = Nil THEN <<GaugeSet(vec, lvs, parsed.value)>> ELSE <<>>)

\* vec.WithLabelValues(lvs...).Set(value)
SetGauge(vec, lvs, value) == <<WithLabelValues(vec, lvs), GaugeSet(vec, lvs, value)>>

\* the body of the loop over the numbered sensors, for slot i
SlotOps(remote_adress, name, values, i) ==
    LET iStr == Itoa(i)
    IN  (IF Has(values, "temp" \o iStr \o "f")
         THEN updateGauge("temperature", <<remote_adress, name, iStr>>,
                          parseValue(values, "temp" \o iStr \o "f"))
              \o updateGauge("battery", <<remote_adress, name, iStr>>,
                             parseValue(values, "batt" \o iStr))
         ELSE <<DeleteLabelValues("battery", <<name, iStr>>),
                DeleteLabelValues("temperature", <<name, iStr>>)>>)
        \o
        (IF Has(values, "soilhum" \o iStr)
         THEN updateGauge("humidity", <<remote_adress, name, "soil" \o iStr>>,
                          parseValue(values, "soilhum" \o iStr))
              \o updateGauge("battery", <<remote_adress, name, "soil" \o iStr>>,
                             parseValue(values, "battsm" \o iStr))
         ELSE <<DeleteLabelValues("humidity", <<name, "soil" \o iStr>>),
                DeleteLabelValues("battery", <<name, "soil" \o iStr>>)>>)
        \o
        (IF Has(values, "humidity" \o iStr)
         THEN updateGauge("humidity", <<remote_adress, name, iStr>>,
                          parseValue(values, "humidity" \o iStr))
         ELSE <<DeleteLabelValues("humidity", <<name, iStr>>)>>)

RECURSIVE SlotLoop(_, _, _, _)
\* for i := from; i <= 10; i++
SlotLoop(remote_adress, name, values, from) ==
    IF from > NumSlots THEN <<>>
    ELSE SlotOps(remote_adress, name, values, from)
         \o SlotLoop(remote_adress, name, values, from + 1)

\* FeelsLike with the wind chill applied below 40 F only
FeelsLikeBelow40(tempF, wind, hum) ==
    LET afterWind == IF wind.err = Nil /\ tempF < 40000
                     THEN calculateWindChill(tempF, wind.value)
                     ELSE tempF
    IN  IF hum.err = Nil /\ tempF >= 80000
        THEN calculateHeatIndex(tempF, hum.value)
        ELSE afterWind

\* the value of the variable feelsLike at the end of the outdoor block:
\* tempF, overwritten by the wind chill and then by the heat index
FeelsLike(tempF, wind, hum) ==
    LET afterWind == IF wind.err = Nil /\ tempF <= 40000
                     THEN calculateWindChill(tempF, wind.value)
                     ELSE tempF
    IN  IF hum.err = Nil /\ tempF >= 80000
        THEN calculateHeatIndex(tempF, hum.value)
        ELSE afterWind

\* WindSpeedOps with the Set moved inside the test of tempF <= 40
WindSpeedOpsCold(remote_adress, name, tempF, wind) ==
    IF wind.err = Nil /\ tempF <= 40000
    THEN SetGauge("wind_speed_mph", <<remote_adress, name, "sustained">>, wind.value)
    ELSE <<>>

\* the sustained wind speed, set whenever windspeedmph parsed
WindSpeedOps(remote_adress, name, tempF, wind) ==
    IF wind.err = Nil
    THEN SetGauge("wind_speed_mph", <<remote_adress, name, "sustained">>, wind.value)
    ELSE <<>>

\* outdoor humidity and dew point, set whenever humidity parsed
HumidityOps(remote_adress, name, tempF, hum) ==
    IF hum.err = Nil
    THEN SetGauge("humidity", <<remote_adress, name, "outdoor">>, hum.value)
         \o SetGauge("temperature", <<remote_adress, name, "dewpoint">>,
                     calculateDewPoint(tempF, hum.value))
    ELSE <<>>

\* OutdoorOps without the test of the error of parseValue("tempf")
OutdoorOpsUnguarded(remote_adress, name, values) ==
    LET tempf == parseValue(values, "tempf")
        tempF == tempf.value
        wind  == parseValue(values, "windspeedmph")
        hum   == parseValue(values, "humidity")
    IN  SetGauge("temperature", <<remote_adress, name, "outdoor">>, tempF)
        \o WindSpeedOps(remote_adress, name, tempF, wind)
        \o HumidityOps(remote_adress, name, tempF, hum)
        \o SetGauge("temperature", <<remote_adress, name, "feelsLike">>,
                    FeelsLike(tempF, wind, hum))

\* the block guarded by the outcome of parseValue("tempf")
OutdoorOps(remote_adress, name, values) ==
    LET tempf == parseValue(values, "tempf")
        tempF == tempf.value
        wind  == parseValue(values, "windspeedmph")
        hum   == parseValue(values, "humidity")
    IN  IF tempf.err = Nil
        THEN SetGauge("temperature", <<remote_adress, name, "outdoor">>, tempF)
             \o WindSpeedOps(remote_adress, name, tempF, wind)
             \o HumidityOps(remote_adress, name, tempF, hum)
             \o SetGauge("temperature", <<remote_adress, name, "feelsLike">>,
                         FeelsLike(tempF, wind, hum))
        ELSE <<>>

\* the scalar fields set one by one after the outdoor block:
\* <<field, family, label values after remote_adress and name>>
ScalarFields ==
    << <<"battout", "battery", <<"outdoor">>>>,
       <<"battin", "battery", <<"indoor">>>>,
       <<"batt_lightning", "battery", <<"lightning">>>>,
       <<"humidityin", "humidity", <<"indoor">>>>,
       <<"baromrelin", "barometer", <<"relative">>>>,
       <<"baromabsin", "barometer", <<"absolute">>>>,
       <<"winddir", "wind_dir", <<"current">>>>,
       <<"winddir_avg10m", "wind_dir", <<"avg10m">>>>,
       <<"windgustmph", "wind_speed_mph", <<"gusts">>>>,
       <<"solarradiation", "solar_radiation", <<>>>>,
       <<"hourlyrainin", "rain_in", <<"hourly">>>>,
       <<"dailyrainin", "rain_in", <<"daily">>>>,
       <<"weeklyrainin", "rain_in", <<"weekly">>>>,
       <<"monthlyrainin", "rain_in", <<"monthly">>>>,
       <<"yearlyrainin", "rain_in", <<"yearly">>>>,
       <<"totalrainin", "rain_in", <<"total">>>>,
       <<"eventrainin", "rain_in", <<"event">>>>,
       <<"uv", "ultraviolet", <<>>>>,
       <<"lightning_day", "lightning_strikes", <<"day">>>>,
       <<"lightning_distance", "lightning_distance", <<>>>>,
       <<"lightning_time", "lightning_last_strike", <<>>>> >>

\* the indoor temperature, set just before the outdoor block
IndoorField == <<"tempinf", "temperature", <<"indoor">>>>

ScalarOp(remote_adress, name, values, entry) ==
    updateGauge(entry[2], <<remote_adress, name>> \o entry[3], parseValue(values, entry[1]))

RECURSIVE ScalarOps(_, _, _, _)
ScalarOps(remote_adress, name, values, entries) ==
    IF entries = <<>> THEN <<>>
    ELSE ScalarOp(remote_adress, name, values, Head(entries))
         \o ScalarOps(remote_adress, name, values, Tail(entries))

\* "if err == station_err": err is the error of parseValue("tempf") (the
\* errors declared inside the outdoor block are other variables), and two
\* errors made by two fmt.Errorf calls are never the same value, so the
\* comparison holds only when both are nil
StationTypeGuard(err, station_err) == err = station_err

\* StationTypeStep with the result of parseValue("tempf") handed to
\* updateGauge in the place of (1, nil)
StationTypeStepTempf(remote_adress, name, values) ==
    LET tempf   == parseValue(values, "tempf")
        station == parseString(values, "stationtype")
    IN  IF StationTypeGuard(tempf.err, station.err)
        THEN IF ValidUTF8(station.str)
             THEN [ops   |-> updateGauge("stationtype_info",
                                         <<remote_adress, name, Str(station.str)>>,
                                         tempf),
                   panic |-> FALSE]
             ELSE [ops |-> <<>>, panic |-> TRUE]
        ELSE [ops |-> <<>>, panic |-> FALSE]

\* the station type step: the operations, and whether WithLabelValues
\* panics because the label value is not valid UTF-8
StationTypeStep(remote_adress, name, values) ==
    LET tempf   == parseValue(values, "tempf")
        station == parseString(values, "stationtype")
    IN  IF StationTypeGuard(tempf.err, station.err)
        THEN IF ValidUTF8(station.str)
             THEN [ops   |-> updateGauge("stationtype_info",
                                         <<remote_adress, name, Str(station.str)>>,
                                         [value |-> 1000, err |-> Nil]),
                   panic |-> FALSE]
             ELSE [ops |-> <<>>, panic |-> TRUE]
        ELSE [ops |-> <<>>, panic |-> FALSE]

\* ParseBody with a parseValue that panics on a value that is not a number
ParseBodyAbort(remote_adress, name, values) ==
    LET last == StationTypeStep(remote_adress, name, values)
    IN  IF \E k \in (DOMAIN values) \ {"stationtype"} :
               ~ParseFloatOk(StripCRLF(values[k][1]))
        THEN [ops |-> <<>>, panic |-> TRUE]
        ELSE [ops   |-> SlotLoop(remote_adress, name, values, 1)
                        \o ScalarOp(remote_adress, name, values, IndoorField)
                        \o OutdoorOps(remote_adress, name, values)
                        \o ScalarOps(remote_adress, name, values, ScalarFields)
                        \o last.ops,
              panic |-> last.panic]

\* ParseBody as a transaction: a panic undoes the operations before it
ParseBodyAtomic(remote_adress, name, values) ==
    LET last == StationTypeStep(remote_adress, name, values)
    IN  IF last.panic
        THEN [ops |-> <<>>, panic |-> TRUE]
        ELSE [ops   |-> SlotLoop(remote_adress, name, values, 1)
                        \o ScalarOp(remote_adress, name, values, IndoorField)
                        \o OutdoorOps(remote_adress, name, values)
                        \o ScalarOps(remote_adress, name, values, ScalarFields)
                        \o last.ops,
              panic |-> FALSE]

\* the body of Parse: the registry operations in program order, and whether
\* it ends in a panic
ParseBody(remote_adress, name, values) ==
    LET last == StationTypeStep(remote_adress, name, values)
    IN  [ops   |-> SlotLoop(remote_adress, name, values, 1)
                   \o ScalarOp(remote_adress, name, values, IndoorField)
                   \o OutdoorOps(remote_adress, name, values)
                   \o ScalarOps(remote_adress, name, values, ScalarFields)
                   \o last.ops,
         panic |-> last.panic]

\* Parse without the deferred recover: the panic goes on to the caller
RecoverNothing(panic) == [recovered |-> FALSE, propagated |-> panic]

\* the deferred function of Parse: recover() stops the panic, which is
\* logged; Parse then returns normally
Recover(panic) == [recovered |-> panic, propagated |-> FALSE]

\* Parse as a whole
Parse(registry, remote_adress, name, values) ==
    LET body == ParseBody(remote_adress, name, values)
        done == Recover(body.panic)
    IN  [registry   |-> ApplyOps(registry, body.ops),
         recovered  |-> done.recovered,
         propagated |-> done.propagated]

(***************************************************************************)
(* Parser.ServeHTTP                                                        *)
(***************************************************************************)
\* RemoteAdress with the empty string as the replacement
RemoteAdressLost(RemoteAddr) == ""

\* req.RemoteAddr is <<host, ":", port>>; the regular expression ^(.*):\d+$
\* with replacement $1 drops a trailing port
RemoteAdress(RemoteAddr) ==
    LET n == Len(RemoteAddr)
    IN  IF n >= 2 /\ RemoteAddr[n - 1] = ":" /\ RemoteAddr[n] \in {"40000", "40001"}
        THEN Str(SubSeq(RemoteAddr, 1, n - 2))
        ELSE Str(RemoteAddr)

(***************************************************************************)
(* req.URL.Path is a tuple of tokens: the mount point "/data/report/", the *)
(* separators "&", "=" and ";", the names of the fields, and the           *)
(* characters of their values.  "%" is a percent sign that starts no       *)
(* escape sequence.                                                        *)
(***************************************************************************)
MountPoint == "/data/report/"
Mask == <<"*", "*", "*", "*", "*", "*">>

RECURSIVE SkipValue(_)
\* what is left of the path after the longest run matching [^&]*
SkipValue(path) ==
    IF path = <<>> \/ Head(path) = "&" THEN path ELSE SkipValue(Tail(path))

RECURSIVE Redact(_)
\* regexp `&PASSKEY=[^&]*`, ReplaceAllString(path, "&PASSKEY=******"):
\* every match, from left to right
Redact(path) ==
    IF path = <<>> THEN <<>>
    ELSE IF Len(path) >= 3 /\ path[1] = "&" /\ path[2] = "PASSKEY" /\ path[3] = "="
         THEN <<"&", "PASSKEY", "=">> \o Mask
              \o Redact(SkipValue(SubSeq(path, 4, Len(path))))
         ELSE <<Head(path)>> \o Redact(Tail(path))

\* strings.Replace(path, "/data/report/", "", 1): the first occurrence goes
TrimMountPoint(path) ==
    IF \E i \in DOMAIN path : path[i] = MountPoint
    THEN LET first == CHOOSE i \in DOMAIN path :
                          /\ path[i] = MountPoint
                          /\ \A j \in 1..(i - 1) : path[j] # MountPoint
         IN  SubSeq(path, 1, first - 1) \o SubSeq(path, first + 1, Len(path))
    ELSE path

\* strings.Cut(s, sep): before, after and found
Cut(s, sep) ==
    IF \E i \in DOMAIN s : s[i] = sep
    THEN LET at == CHOOSE i \in DOMAIN s :
                       s[i] = sep /\ \A j \in 1..(i - 1) : s[j] # sep
         IN  [before |-> SubSeq(s, 1, at - 1),
              after  |-> SubSeq(s, at + 1, Len(s)),
              found  |-> TRUE]
    ELSE [before |-> s, after |-> <<>>, found |-> FALSE]

\* url.QueryUnescape fails on a "%" that is not followed by two hex digits
QueryUnescapeOk(s) == \A i \in DOMAIN s : s[i] # "%"

\* m[key] = append(m[key], value)
Append1(m, key, value) ==
    IF key \in DOMAIN m
    THEN [m EXCEPT ![key] = Append(@, value)]
    ELSE m @@ (key :> <<value>>)

RECURSIVE parseQuery(_, _, _)
\* url.ParseQuery: the pairs between "&" one by one; a pair with a
\* semicolon or a bad escape is left out and the first error is kept
parseQuery(m, err, query) ==
    IF query = <<>> THEN [values |-> m, err |-> err]
    ELSE LET cut   == Cut(query, "&")
             pair  == Cut(cut.before, "=")
             key   == pair.before
             value == pair.after
         IN  IF \E i \in DOMAIN cut.before : cut.before[i] = ";"
             THEN parseQuery(m, <<"invalid semicolon separator in query">>, cut.after)
             ELSE IF cut.before = <<>>
             THEN parseQuery(m, err, cut.after)
             ELSE IF ~QueryUnescapeOk(key) \/ ~QueryUnescapeOk(value)
             THEN parseQuery(m, IF err = Nil THEN <<"invalid URL escape">> ELSE err,
                             cut.after)
             ELSE parseQuery(Append1(m, Str(key), value), err, cut.after)

ParseQuery(query) == parseQuery(<<>>, Nil, query)

(***************************************************************************)
(* The reports of the model.  A field map gives each field that is present *)
(* its list of raw values (url.ParseQuery never makes an empty list).      *)
(***************************************************************************)
Absent == <<>>
One(raw) == <<raw>>

Unparseable == One(<<"x">>)

\* the field maps that give every field of options one of its options
FieldMaps(options) ==
    LET choices == {g \in [DOMAIN options -> UNION Range(options)] :
                        \A k \in DOMAIN options : g[k] \in options[k]}
    IN  {[k \in {j \in DOMAIN g : g[j] # Absent} |-> g[k]] : g \in choices}

\* an outdoor sensor array: tempf with wind speed and humidity
OutdoorReports ==
    FieldMaps([tempf        |-> {Absent, Unparseable, One(<<"4", "0">>),
                                 One(<<"6", "0">>), One(<<"8", "5">>)},
               windspeedmph |-> {Unparseable, One(<<"3">>), One(<<"1", "0">>)},
               humidity     |-> {Absent, One(<<"8", "0">>)}])

\* numbered sensors in the first and the last slot
SlotReports ==
    FieldMaps([temp1f   |-> {Absent, Unparseable, One(<<"7", "0">>)},
               batt1    |-> {Absent, One(<<"1">>)},
               soilhum1 |-> {Absent, One(<<"4", "5">>)}])
    \cup {[temp10f |-> One(<<"6", "1">>)]}

ScalarNames == {IndoorField[1]} \cup {ScalarFields[i][1] : i \in DOMAIN ScalarFields}

\* a console that reports one scalar reading at a time, or an unparseable
\* indoor temperature next to other readings
ConsoleReports ==
    {[k \in {fld} |-> One(<<"7", LF, "1">>)] : fld \in ScalarNames}
    \cup FieldMaps([tempinf    |-> {Absent, Unparseable},
                    baromrelin |-> {Absent, One(<<"3", "0">>)},
                    batt1      |-> {Absent, One(<<"1">>)}])

\* reports that carry the station type
StationReports ==
    FieldMaps([stationtype |-> {Absent, One(<<"A", "M", "B", CR, LF>>),
                                One(<<"W", "S">>), One(<<"A", BadByte>>)},
               tempf       |-> {Absent, Unparseable, One(<<"6", "0">>)},
               baromrelin  |-> {Absent, One(<<"3", "0">>)}])

Reports ==
    [outdoor |-> OutdoorReports,
     slots   |-> SlotReports,
     console |-> ConsoleReports,
     station |-> StationReports]

Station1 == <<"10.0.0.1", ":", "40000">>
Station2 == <<"10.0.0.2", ":", "40001">>

\* the installations of the model: the station name the exporter was started
\* with, the kind of reports its stations send, and the stations
Sites ==
    { [name |-> "ws", profile |-> "outdoor", stations |-> {Station1}],
      [name |-> "ws", profile |-> "slots",   stations |-> {Station1, Station2}],
      [name |-> "ws", profile |-> "console", stations |-> {Station1}],
      [name |-> "",   profile |-> "station", stations |-> {Station1}],
      [name |-> "ws", profile |-> "station", stations |-> {Station1}] }

(***************************************************************************)
(* State                                                                   *)
(***************************************************************************)
VARIABLES
    site,        \* the installation (fixed for the process lifetime)
    registry,    \* the series of the registry and their values
    before,      \* the registry when the last request arrived
    request,     \* the last request: <<RemoteAddr, values>>, <<>> before the first
    recovered,   \* the last Parse call recovered from a panic
    propagated,  \* a panic has left Parse
    panics,      \* the number of "Failed to parse incoming request" log lines
    calls,       \* the number of requests served
    handlers,    \* the requests being served step by step, one per connection
    calc         \* the arguments and results of the derived-quantity functions

vars == <<site, registry, before, request, recovered, propagated, panics, calls,
          handlers, calc>>

Empty == <<>>

Init ==
    /\ site \in Sites
    /\ registry = Empty
    /\ before = Empty
    /\ request = <<>>
    /\ recovered = FALSE
    /\ propagated = FALSE
    /\ panics = 0
    /\ calls = 0
    /\ handlers = <<>>
    /\ calc = <<>>

\* one request on /data/report/, served to completion
ServeHTTP(RemoteAddr, values) ==
    LET remote_adress == RemoteAdress(RemoteAddr)
        result == Parse(registry, remote_adress, site.name, values)
    IN  /\ calls < MaxCalls
        /\ calls' = calls + 1
        /\ request' = <<RemoteAddr, values>>
        /\ before' = registry
        /\ registry' = result.registry
        /\ recovered' = result.recovered
        /\ propagated' = (propagated \/ result.propagated)
        /\ panics' = panics + (IF result.recovered THEN 1 ELSE 0)
        /\ UNCHANGED <<site, handlers, calc>>

Next ==
    \E RemoteAddr \in site.stations, values \in Reports[site.profile] :
        ServeHTTP(RemoteAddr, values)

Spec == Init /\ [][Next]_vars

(***************************************************************************)
(* Requests served step by step.  Every connection has its own goroutine   *)
(* running ServeHTTP; the goroutines share the registry, and every         *)
(* operation on a gauge family is one atomic step.                         *)
(***************************************************************************)
\* p.Log: log.Printf when the exporter runs with -verbose
Log(be_verbose, lines, line) == IF be_verbose THEN Append(lines, line) ELSE lines

\* the fields parseValue is called on, in program order
ParseCalls(values) ==
    LET slot(i) ==
            (IF Has(values, "temp" \o Itoa(i) \o "f")
             THEN <<"temp" \o Itoa(i) \o "f", "batt" \o Itoa(i)>> ELSE <<>>)
            \o (IF Has(values, "soilhum" \o Itoa(i))
                THEN <<"soilhum" \o Itoa(i), "battsm" \o Itoa(i)>> ELSE <<>>)
            \o (IF Has(values, "humidity" \o Itoa(i))
                THEN <<"humidity" \o Itoa(i)>> ELSE <<>>)
        slots[i \in 0..NumSlots] == IF i = 0 THEN <<>> ELSE slots[i - 1] \o slot(i)
    IN  slots[NumSlots]
        \o <<IndoorField[1], "tempf">>
        \o (IF parseValue(values, "tempf").err = Nil
            THEN <<"windspeedmph", "humidity">> ELSE <<>>)
        \o [i \in DOMAIN ScalarFields |-> ScalarFields[i][1]]

\* the lines parseValue writes with log.Println: one for every field it is
\* called on that is present and is not a number
FailureLines(values) ==
    LET failing == SelectSeq(ParseCalls(values),
                             LAMBDA k : Has(values, k)
                                        /\ parseValue(values, k).err # Nil)
    IN  [i \in DOMAIN failing |->
            <<"failed to parse value", StripCRLF(values[failing[i]][1])>>]

\* a connection on which no request has arrived
Idle ==
    [pc |-> "idle", path |-> <<>>, status |-> 0, statusAtParse |-> 0,
     values |-> <<>>, err |-> Nil, ops |-> <<>>, panic |-> FALSE,
     log |-> <<>>, overlapped |-> FALSE]

\* WriteHeader left out
WriteHeaderForgotten(h, code) == h

\* resp.WriteHeader(code): the first call fixes the status of the response
WriteHeader(h, code) == [h EXCEPT !.status = IF @ = 0 THEN code ELSE @]

\* a request arrives: the remote address, the redaction of the path and
\* the log line
Receive(a, path) ==
    /\ handlers[a].pc = "idle"
    /\ handlers' = [handlers EXCEPT ![a] =
           [@ EXCEPT !.pc = "logged",
                     !.path = path,
                     !.log = Log(site.be_verbose, @,
                                 <<"sample submitted by remote_adress",
                                   RemoteAdress(a), Redact(path)>>)]]
    /\ UNCHANGED <<site, registry, before, request, recovered, propagated,
                   panics, calls, calc>>

\* "respond immediately"
Respond(a) ==
    /\ handlers[a].pc = "logged"
    /\ handlers' = [handlers EXCEPT ![a] =
           [WriteHeader(@, 204) EXCEPT !.pc = "responded"]]
    /\ UNCHANGED <<site, registry, before, request, recovered, propagated,
                   panics, calls, calc>>

\* url.ParseQuery on the redacted path without the mount point; a failure
\* is logged and the values decoded so far are kept
Decode(a) ==
    LET queryStr == TrimMountPoint(Redact(handlers[a].path))
        decoded  == ParseQuery(queryStr)
    IN  /\ handlers[a].pc = "responded"
        /\ handlers' = [handlers EXCEPT ![a] =
               [@ EXCEPT !.pc = "decoded",
                         !.values = decoded.values,
                         !.err = decoded.err,
                         !.log = IF decoded.err = Nil THEN @
                                 ELSE Append(@, <<"Failed to parse weather observation from request url",
                                                  decoded.err>>)]]
        /\ UNCHANGED <<site, registry, before, request, recovered, propagated,
                       panics, calls, calc>>

\* p.Parse is called: what it is going to do to the registry
ParseEnter(a) ==
    LET body == ParseBody(RemoteAdress(a), site.name, handlers[a].values)
    IN  /\ handlers[a].pc = "decoded"
        /\ handlers' = [handlers EXCEPT ![a] =
               [@ EXCEPT !.pc = "parsing",
                         !.statusAtParse = handlers[a].status,
                         !.ops = body.ops,
                         !.panic = body.panic]]
        /\ UNCHANGED <<site, registry, before, request, recovered, propagated,
                       panics, calls, calc>>

\* another goroutine is in the middle of its own gauge operations
Overlaps(a) ==
    \E b \in (DOMAIN handlers) \ {a} :
        /\ handlers[b].pc = "parsing"
        /\ handlers[b].ops # <<>>
        /\ handlers[b].ops # ParseBody(RemoteAdress(b), site.name, handlers[b].values).ops

\* the next operation of Parse on a gauge family
GaugeOp(a) ==
    /\ handlers[a].pc = "parsing"
    /\ handlers[a].ops # <<>>
    /\ registry' = ApplyOp(registry, Head(handlers[a].ops))
    /\ handlers' = [handlers EXCEPT ![a] =
           [@ EXCEPT !.ops = Tail(@),
                     !.overlapped = @ \/ Overlaps(a)]]
    /\ UNCHANGED <<site, before, request, recovered, propagated, panics, calls, calc>>

\* Parse returns, through the deferred recover when the body panicked
ParseLeave(a) ==
    LET done    == Recover(handlers[a].panic)
        written == handlers[a].log \o FailureLines(handlers[a].values)
    IN  /\ handlers[a].pc = "parsing"
        /\ handlers[a].ops = <<>>
        /\ handlers' = [handlers EXCEPT ![a] =
               [@ EXCEPT !.pc = "done",
                         !.log = IF done.recovered
                                 THEN Append(written, <<"Failed to parse incoming request">>)
                                 ELSE written]]
        /\ propagated' = (propagated \/ done.propagated)
        /\ panics' = panics + (IF done.recovered THEN 1 ELSE 0)
        /\ UNCHANGED <<site, registry, before, request, recovered, calls, calc>>

(***************************************************************************)
(* The requests of the step-by-step model.  A station appends its fields   *)
(* to the configured path, each with "&" in front; a hand-written request  *)
(* may start with the first field right after the mount point.             *)
(***************************************************************************)
Field(name, raw) == <<name, "=">> \o raw

RECURSIVE Join(_)
Join(fields) ==
    IF fields = <<>> THEN <<>>
    ELSE IF Len(fields) = 1 THEN fields[1]
    ELSE fields[1] \o <<"&">> \o Join(Tail(fields))

RequestPath(lead, fields) ==
    <<MountPoint>> \o (IF lead THEN <<"&">> ELSE <<>>) \o Join(fields)

Passkeys == {<<"k", "1">>, <<"k", "2">>}

\* PASSKEY as the first, a middle and the last field
PasskeyPaths ==
    {RequestPath(lead, fields) :
        lead \in BOOLEAN,
        fields \in UNION {{<<Field("PASSKEY", k), Field("tempf", <<"6", "0">>)>>,
                           <<Field("tempf", <<"6", "0">>), Field("PASSKEY", k),
                             Field("humidity", <<"8", "0">>)>>,
                           <<Field("tempf", <<"6", "0">>), Field("PASSKEY", k)>>}
                          : k \in Passkeys}}

\* queries that do not decode as a whole, and fields that come twice
QueryPaths ==
    {RequestPath(TRUE, fields) : fields \in
        {<<Field("tempf", <<"6", "0">>), Field("humidity", <<"8", ";", "0">>),
           Field("baromrelin", <<"3", "0">>)>>,
         <<Field("tempf", <<"6", "%">>), Field("baromrelin", <<"3", "0">>)>>,
         <<Field("uv", <<"%">>), Field("tempinf", <<";">>)>>,
         <<Field("tempf", <<"6", "0">>), Field("tempf", <<"x">>)>>,
         <<Field("tempf", <<"x">>), Field("tempf", <<"6", "0">>)>>,
         <<Field("baromrelin", <<"3", "0">>), Field("baromrelin", <<"2", "9">>)>>,
         <<Field("temp1f", <<"7", "0">>), Field("batt1", <<"1">>),
           Field("batt1", <<"0">>), Field("temp1f", <<>>)>>,
         <<Field("tempf", <<"8", "5">>), Field("humidity", <<"8", "0">>),
           Field("humidity", <<"x">>), Field("tempf", <<"4", "0">>)>>,
         <<Field("stationtype", <<"W", "S">>), Field("tempf", <<"6", "0">>),
           Field("stationtype", <<"A", BadByte>>)>>,
         <<Field("stationtype", <<"A", BadByte>>), Field("tempf", <<"6", "0">>),
           Field("stationtype", <<"W", "S">>)>>,
         <<Field("tempf", <<"6", "0">>)>>,
         <<>>}}

\* what two stations send at the same time
StationPaths ==
    {RequestPath(TRUE, fields) : fields \in
        {<<Field("stationtype", <<"W", "S">>), Field("tempf", <<"6", "0">>),
           Field("temp1f", <<"7", "0">>)>>,
         <<Field("tempf", <<"8", "5">>), Field("humidity", <<"8", "0">>),
           Field("stationtype", <<"A", BadByte>>)>>}}

Paths ==
    [passkey  |-> PasskeyPaths,
     queries  |-> QueryPaths,
     stations |-> StationPaths]

\* the installations of the step-by-step model; earlier tells whether the
\* first station has reported before
HandlerSites ==
    {[name |-> "ws", be_verbose |-> v, earlier |-> FALSE, profile |-> "passkey",
      stations |-> {Station1}] : v \in BOOLEAN}
    \cup {[name |-> n, be_verbose |-> TRUE, earlier |-> e, profile |-> "queries",
           stations |-> {Station1}] : n \in {"", "ws"}, e \in BOOLEAN}
    \cup {[name |-> "ws", be_verbose |-> FALSE, earlier |-> TRUE, profile |-> "stations",
           stations |-> {Station1, Station2}]}

\* a report a station sent before the requests of the model
EarlierReport ==
    [tempf |-> One(<<"4", "0">>), windspeedmph |-> One(<<"1", "0">>),
     temp1f |-> One(<<"6", "1">>), baromrelin |-> One(<<"2", "9">>),
     stationtype |-> One(<<"W", "S">>)]

\* the registry the requests of the model find: a new one, or the one an
\* earlier report of the first station left
EarlierRegistry(name, earlier) ==
    IF earlier
    THEN Parse(Empty, RemoteAdress(Station1), name, EarlierReport).registry
    ELSE Empty

InitHandlers ==
    /\ site \in HandlerSites
    /\ registry = EarlierRegistry(site.name, site.earlier)
    /\ before = registry
    /\ request = <<>>
    /\ recovered = FALSE
    /\ propagated = FALSE
    /\ panics = 0
    /\ calls = 0
    /\ handlers = [a \in site.stations |-> Idle]
    /\ calc = <<>>

NextHandlers ==
    \E a \in site.stations :
        \/ \E path \in Paths[site.profile] : Receive(a, path)
        \/ Respond(a)
        \/ Decode(a)
        \/ ParseEnter(a)
        \/ GaugeOp(a)
        \/ ParseLeave(a)

SpecHandlers == InitHandlers /\ [][NextHandlers]_vars

(***************************************************************************)
(* The derived-quantity functions called on their own, and through a       *)
(* report that carries the same readings.                                  *)
(***************************************************************************)
CalcTemps == {-5000, 0, 32000, 39000, 40000, 40001, 45000, 75000, 79999, 80000, 85000}
CalcWinds == {0, 3000, 4999, 5000, 10000, 60000}
CalcHumidities == {1000, 12000, 50000, 90000, 100000}

RECURSIVE Decimal(_)
\* the decimal digits of n >= 0, as a station writes a reading
Decimal(n) ==
    IF n < 10 THEN <<Digits[n + 1]>>
    ELSE Decimal(n \div 10) \o <<Digits[(n % 10) + 1]>>

CalcSite == [name |-> "ws", profile |-> "calc", stations |-> {Station1}]

InitCalc ==
    /\ site = CalcSite
    /\ registry = Empty
    /\ before = Empty
    /\ request = <<>>
    /\ recovered = FALSE
    /\ propagated = FALSE
    /\ panics = 0
    /\ calls = 0
    /\ handlers = <<>>
    /\ calc \in [tempF : CalcTemps, windSpeedMph : CalcWinds, rh : CalcHumidities,
                 windChill : {<<>>}, heatIndex : {<<>>}]

CallWindChill ==
    /\ calc.windChill = <<>>
    /\ calc' = [calc EXCEPT !.windChill =
                    <<calculateWindChill(calc.tempF, calc.windSpeedMph)>>]
    /\ UNCHANGED <<site, registry, before, request, recovered, propagated, panics,
                   calls, handlers>>

CallHeatIndex ==
    /\ calc.heatIndex = <<>>
    /\ calc' = [calc EXCEPT !.heatIndex = <<calculateHeatIndex(calc.tempF, calc.rh)>>]
    /\ UNCHANGED <<site, registry, before, request, recovered, propagated, panics,
                   calls, handlers>>

\* the station reports the readings, with or without the humidity
ReportReadings(withHumidity) ==
    /\ calc.tempF >= 0 /\ calc.tempF % 1000 = 0 /\ calc.windSpeedMph % 1000 = 0
    /\ ServeHTTP(Station1,
                 [tempf        |-> One(Decimal(calc.tempF \div 1000)),
                  windspeedmph |-> One(Decimal(calc.windSpeedMph \div 1000))]
                 @@ (IF withHumidity
                     THEN [humidity |-> One(Decimal(calc.rh \div 1000))]
                     ELSE <<>>))

NextCalc ==
    \/ CallWindChill
    \/ CallHeatIndex
    \/ \E withHumidity \in BOOLEAN : ReportReadings(withHumidity)

SpecCalc == InitCalc /\ [][NextCalc]_vars

(***************************************************************************)
(* Vocabulary of the properties                                            *)
(***************************************************************************)
Served == request # <<>>
\* the remote address and the field map of the last request
ReqRemote == RemoteAdress(request[1])
ReqValues == request[2]

Series(vec, lvs) == <<vec, lvs>>
Present(reg, series) == series \in DOMAIN reg
\* the series exists in both registries with one value, or in neither
Untouched(old, new, series) ==
    /\ Present(old, series) <=> Present(new, series)
    /\ Present(old, series) => new[series] = old[series]
\* the series exists and has the value
HasValue(reg, series, value) == Present(reg, series) /\ reg[series] = value

Parses(values, key) == parseValue(values, key).err = Nil
Value(values, key) == parseValue(values, key).value
\* present in the report, and not a number
FailsToParse(values, key) == Has(values, key) /\ ~Parses(values, key)

AllRemotes == {RemoteAdress(a) : a \in UNION {s.stations : s \in Sites}}
Slots == 1..NumSlots

TempSeries(remote, sensor) == Series("temperature", <<remote, site.name, sensor>>)
BattSeries(remote, sensor) == Series("battery", <<remote, site.name, sensor>>)
HumSeries(remote, sensor)  == Series("humidity", <<remote, site.name, sensor>>)
WindSeries(remote, type)   == Series("wind_speed_mph", <<remote, site.name, type>>)

\* the scalar fields of the indoor step and of the remaining-scalars step,
\* each with its series for a remote address: <<field, series>>
ScalarSeries(remote) ==
    {<<e[1], Series(e[2], <<remote, site.name>> \o e[3])>> :
        e \in Range(ScalarFields) \cup {IndoorField}}

(***************************************************************************)
(* C1: after a call whose report lacks tempXf, the registry holds no       *)
(* temperature series and no battery series of the caller for sensor X.    *)
(* The code removes with two label values from families of three labels,   *)
(* which removes nothing.                                                  *)
(***************************************************************************)
C1_AbsentSlotIsRemoved ==
    Served =>
        \A X \in Slots :
            ~Has(ReqValues, "temp" \o Itoa(X) \o "f") =>
                /\ ~Present(registry, TempSeries(ReqRemote, Itoa(X)))
                /\ ~Present(registry, BattSeries(ReqRemote, Itoa(X)))

(***************************************************************************)
(* C2: whenever the report carries stationtype (a valid label), the        *)
(* station type series labelled with it (CR/LF stripped) is 1 after the    *)
(* call, whatever tempf is.  The code sets it only when tempf parsed.      *)
(***************************************************************************)
StationTypeSeries(remote, values) ==
    Series("stationtype_info",
           <<remote, site.name, Str(StripCRLF(values["stationtype"][1]))>>)

C2_StationTypeAlwaysSet ==
    (Served /\ Has(ReqValues, "stationtype")
            /\ ValidUTF8(ReqValues["stationtype"][1])) =>
        HasValue(registry, StationTypeSeries(ReqRemote, ReqValues), 1000)

(***************************************************************************)
(* C3: submitting the last report once more leaves the registry as it is   *)
(* (the same series, the same values), from every reachable registry.      *)
(***************************************************************************)
C3_Idempotent ==
    Served =>
        Parse(registry, ReqRemote, site.name, ReqValues).registry = registry

\* a report that set values was received twice in a row
C3_Witness ==
    /\ calls = 2
    /\ before = Parse(Empty, ReqRemote, site.name, ReqValues).registry
    /\ registry = before
    /\ \E k \in DOMAIN registry : registry[k] # 0

(***************************************************************************)
(* C4: no panic leaves Parse: a panic raised in the body is recovered and  *)
(* logged, for every station name, and later reports are processed.        *)
(***************************************************************************)
C4_NoFaultPropagates ==
    /\ propagated = FALSE
    /\ Served => (recovered <=> ParseBody(ReqRemote, site.name, ReqValues).panic)

\* a report was processed after an earlier report had made Parse panic
C4_Witness ==
    /\ panics = 1
    /\ calls = 2
    /\ ~recovered
    /\ registry # before

(***************************************************************************)
(* C5: a scalar field that is absent or fails to parse leaves its series   *)
(* untouched: as before if it existed, still absent if it did not.  The    *)
(* code looks the gauge up before it knows the parse result, and the       *)
(* lookup creates a missing series at 0.                                   *)
(***************************************************************************)
C5_ScalarUntouched ==
    Served =>
        \A p \in ScalarSeries(ReqRemote) :
            ~Parses(ReqValues, p[1]) => Untouched(before, registry, p[2])

(***************************************************************************)
(* C6: a field that fails to parse does not stop the other fields of the   *)
(* report from being set.                                                  *)
(***************************************************************************)
\* every numeric field with its series for a remote address and the field
\* that gates it: <<field, series, gate>>, the gate being <<>> (none),
\* <<"present", field>> or <<"parses", field>>
NumericFields(remote) ==
    UNION {{<<"temp" \o Itoa(i) \o "f", TempSeries(remote, Itoa(i)), <<>>>>,
            <<"batt" \o Itoa(i), BattSeries(remote, Itoa(i)),
              <<"present", "temp" \o Itoa(i) \o "f">>>>,
            <<"soilhum" \o Itoa(i), HumSeries(remote, "soil" \o Itoa(i)), <<>>>>,
            <<"battsm" \o Itoa(i), BattSeries(remote, "soil" \o Itoa(i)),
              <<"present", "soilhum" \o Itoa(i)>>>>,
            <<"humidity" \o Itoa(i), HumSeries(remote, Itoa(i)), <<>>>>} : i \in Slots}
    \cup {<<p[1], p[2], <<>>>> : p \in ScalarSeries(remote)}
    \cup {<<"tempf", TempSeries(remote, "outdoor"), <<>>>>,
          <<"windspeedmph", WindSeries(remote, "sustained"), <<"parses", "tempf">>>>,
          <<"humidity", HumSeries(remote, "outdoor"), <<"parses", "tempf">>>>}

GateOpen(values, gate) ==
    \/ gate = <<>>
    \/ gate[1] = "present" /\ Has(values, gate[2])
    \/ gate[1] = "parses" /\ Parses(values, gate[2])

SomeFieldFails(values) == \E k \in DOMAIN values : FailsToParse(values, k)

\* as first stated: every other present and parseable field is set, unless
\* it is wind speed or humidity and tempf gave no number
C6_AsStated ==
    (Served /\ SomeFieldFails(ReqValues)) =>
        \A f \in NumericFields(ReqRemote) :
            (/\ Parses(ReqValues, f[1])
             /\ ~(f[1] \in {"windspeedmph", "humidity"} /\ ~Parses(ReqValues, "tempf")))
            => HasValue(registry, f[2], Value(ReqValues, f[1]))

\* C6 (amended): when a field of the report fails to parse, every other
\* numeric field that is present and parseable is set to its value by the
\* same call, provided its gate is open: tempXf present for battX, soilhumX
\* present for battsmX, tempf present and parseable for windspeedmph and
\* humidity.
C6_FailureDoesNotAbort ==
    (Served /\ SomeFieldFails(ReqValues)) =>
        \A f \in NumericFields(ReqRemote) :
            (Parses(ReqValues, f[1]) /\ GateOpen(ReqValues, f[3]))
            => HasValue(registry, f[2], Value(ReqValues, f[1]))

\* the indoor temperature failed to parse and the barometer of the same
\* report was set
C6_Witness ==
    /\ Served
    /\ FailsToParse(ReqValues, "tempinf")
    /\ Parses(ReqValues, "baromrelin")
    /\ ~Has(ReqValues, "batt1")
    /\ HasValue(registry, Series("barometer", <<ReqRemote, site.name, "relative">>), 30000)

(***************************************************************************)
(* C7: a fixed scalar series that exists keeps its value through every     *)
(* later call whose report omits its field (there is no removal on         *)
(* absence for these series).                                              *)
(***************************************************************************)
\* the fixed scalar series and the fields that they are set from
FixedSeries(remote) ==
    ScalarSeries(remote)
    \cup {<<"tempf", TempSeries(remote, "outdoor")>>,
          <<"windspeedmph", WindSeries(remote, "sustained")>>,
          <<"humidity", HumSeries(remote, "outdoor")>>,
          <<"humidity", TempSeries(remote, "dewpoint")>>,
          <<"tempf", TempSeries(remote, "dewpoint")>>,
          <<"tempf", TempSeries(remote, "feelsLike")>>}

C7_ScalarRetained ==
    Served =>
        \A remote \in AllRemotes : \A p \in FixedSeries(remote) :
            (~Has(ReqValues, p[1]) /\ Present(before, p[2]))
            => HasValue(registry, p[2], before[p[2]])

\* a series that an earlier report had set to a value is still there after
\* a report without its field
C7_Witness ==
    /\ calls = 2
    /\ \E p \in FixedSeries(ReqRemote) :
          /\ ~Has(ReqValues, p[1])
          /\ Present(before, p[2]) /\ before[p[2]] # 0
          /\ HasValue(registry, p[2], before[p[2]])
    /\ registry # before

(***************************************************************************)
(* C8: when tempf is absent or fails to parse, the five series of the      *)
(* outdoor block are exactly as they were before the call, even when       *)
(* windspeedmph and humidity are present and parseable.                    *)
(***************************************************************************)
OutdoorBlockSeries(remote) ==
    {TempSeries(remote, "outdoor"), WindSeries(remote, "sustained"),
     HumSeries(remote, "outdoor"), TempSeries(remote, "dewpoint"),
     TempSeries(remote, "feelsLike")}

C8_OutdoorBlockSkipped ==
    (Served /\ ~Parses(ReqValues, "tempf")) =>
        \A remote \in AllRemotes : \A k \in OutdoorBlockSeries(remote) :
            Untouched(before, registry, k)

\* wind speed and humidity arrived without a usable tempf
C8_Witness ==
    /\ Served
    /\ ~Parses(ReqValues, "tempf")
    /\ Parses(ReqValues, "windspeedmph") /\ Parses(ReqValues, "humidity")
    /\ Present(before, TempSeries(ReqRemote, "feelsLike"))
    /\ \A k \in OutdoorBlockSeries(ReqRemote) : Untouched(before, registry, k)

(***************************************************************************)
(* C9: when tempf parses to T, feelsLike is windChill(T, W) if T <= 40 and *)
(* windspeedmph parses to W, heatIndex(T, RH) if T >= 80 and humidity      *)
(* parses to RH, and T in every other case.                                *)
(***************************************************************************)
C9_FeelsLike ==
    (Served /\ Parses(ReqValues, "tempf")) =>
        LET T == Value(ReqValues, "tempf")
        IN  HasValue(registry, TempSeries(ReqRemote, "feelsLike"),
                CASE T <= 40000 /\ Parses(ReqValues, "windspeedmph") ->
                         calculateWindChill(T, Value(ReqValues, "windspeedmph"))
                  [] T >= 80000 /\ Parses(ReqValues, "humidity") ->
                         calculateHeatIndex(T, Value(ReqValues, "humidity"))
                  [] OTHER -> T)

\* at exactly 40 F with a 10 mph wind the wind chill was written
C9_Witness ==
    /\ Served
    /\ Parses(ReqValues, "tempf") /\ Value(ReqValues, "tempf") = 40000
    /\ Parses(ReqValues, "windspeedmph") /\ Value(ReqValues, "windspeedmph") = 10000
    /\ HasValue(registry, TempSeries(ReqRemote, "feelsLike"), 33651)

(***************************************************************************)
(* C10: the report tempf=85&humidity=80&windspeedmph=3 on an empty         *)
(* registry.                                                               *)
(***************************************************************************)
Report85 ==
    [tempf |-> One(<<"8", "5">>), humidity |-> One(<<"8", "0">>),
     windspeedmph |-> One(<<"3">>)]

AfterReport85 == Served /\ before = Empty /\ ReqValues = Report85

\* as first stated: the wind speed series is unset
C10_AsStated ==
    AfterReport85 =>
        /\ HasValue(registry, TempSeries(ReqRemote, "outdoor"), 85000)
        /\ ~Present(registry, WindSeries(ReqRemote, "sustained"))
        /\ HasValue(registry, HumSeries(ReqRemote, "outdoor"), 80000)
        /\ HasValue(registry, TempSeries(ReqRemote, "dewpoint"),
                    calculateDewPoint(85000, 80000))
        /\ HasValue(registry, TempSeries(ReqRemote, "feelsLike"),
                    calculateHeatIndex(85000, 80000))

\* C10 (amended): after that report on an empty registry, outdoor
\* temperature is 85, sustained wind speed is 3, outdoor humidity is 80,
\* the dew point is dewPoint(85, 80) and feelsLike is heatIndex(85, 80).
C10_Report85 ==
    AfterReport85 =>
        /\ HasValue(registry, TempSeries(ReqRemote, "outdoor"), 85000)
        /\ HasValue(registry, WindSeries(ReqRemote, "sustained"), 3000)
        /\ HasValue(registry, HumSeries(ReqRemote, "outdoor"), 80000)
        /\ HasValue(registry, TempSeries(ReqRemote, "dewpoint"),
                    calculateDewPoint(85000, 80000))
        /\ HasValue(registry, TempSeries(ReqRemote, "feelsLike"),
                    calculateHeatIndex(85000, 80000))

\* the report was served on an empty registry and feelsLike left 85 behind
C10_Witness ==
    /\ AfterReport85
    /\ Present(registry, TempSeries(ReqRemote, "feelsLike"))
    /\ registry[TempSeries(ReqRemote, "feelsLike")] > 85000

(***************************************************************************)
(* C11: the value of the station type series, also in the states between   *)
(* the gauge operations of a call.                                         *)
(***************************************************************************)
StationTypeInfo(reg) == {k \in DOMAIN reg : k[1] = "stationtype_info"}

\* a call has looked the series up and is about to set it to 1
AboutToSet(series) ==
    \E a \in DOMAIN handlers :
        /\ handlers[a].pc = "parsing"
        /\ handlers[a].ops # <<>>
        /\ Head(handlers[a].ops) = GaugeSet(series[1], series[2], 1000)

\* as first stated: every station type series has the value 1 in every
\* state a scrape can observe
C11_AsStated == \A k \in StationTypeInfo(registry) : registry[k] = 1000

\* C11 (amended): every station type series has the value 1, except that a
\* series a call has just created reads 0 until the Set(1) that the same
\* call performs next.
C11_OneOnceSet ==
    \A k \in StationTypeInfo(registry) :
        \/ registry[k] = 1000
        \/ registry[k] = 0 /\ AboutToSet(k)

\* a call has returned that created a station type series, which reads 1
C11_Witness ==
    \E a \in DOMAIN handlers :
        /\ handlers[a].pc = "done"
        /\ \E k \in StationTypeInfo(registry) \ StationTypeInfo(before) :
              k[2][1] = RemoteAdress(a) /\ registry[k] = 1000

(***************************************************************************)
(* C12: what a call that recovered from a fault leaves in the registry.    *)
(***************************************************************************)
\* every field of the report that parses (and whose gate is open) has set
\* its series, and the station type step has set its series when it ran
AllStepsApplied(remote, values) ==
    /\ \A f \in NumericFields(remote) :
          (Parses(values, f[1]) /\ GateOpen(values, f[3]))
          => HasValue(registry, f[2], Value(values, f[1]))
    /\ (Parses(values, "tempf") /\ Has(values, "stationtype")
            /\ ValidUTF8(values["stationtype"][1]))
       => HasValue(registry, StationTypeSeries(remote, values), 1000)

WithoutField(values, key) == [k \in (DOMAIN values) \ {key} |-> values[k]]

Alone == Cardinality(DOMAIN handlers) = 1

\* the field map url.ParseQuery makes of a request path
Decoded(path) == ParseQuery(TrimMountPoint(Redact(path)))

C13_StatusBeforeTranslate ==
    \A a \in DOMAIN handlers :
        /\ handlers[a].pc \in {"parsing", "done"} => handlers[a].statusAtParse = 204
        /\ handlers[a].pc \in {"responded", "decoded", "parsing", "done"}
           => handlers[a].status = 204
        /\ (handlers[a].pc = "done" /\ Alone)
           => registry = Parse(before, RemoteAdress(a), site.name,
                               Decoded(handlers[a].path).values).registry

\* a request whose query failed to decode was answered with 204 and the
\* fields that did decode are in the registry
C13_Witness ==
    \E a \in DOMAIN handlers :
        /\ handlers[a].pc = "done"
        /\ handlers[a].err # Nil
        /\ handlers[a].statusAtParse = 204
        /\ \E line \in Range(handlers[a].log) :
              line[1] = "Failed to parse weather observation from request url"
        /\ ~Has(handlers[a].values, "humidity")
        /\ HasValue(registry, TempSeries(RemoteAdress(a), "outdoor"), 60000)
        /\ HasValue(registry, Series("barometer", <<RemoteAdress(a), site.name, "relative">>),
                    30000)

(***************************************************************************)
(* C14: the value of PASSKEY never reaches the log, wherever the field     *)
(* stands in the query: the line that shows the path has the mask in its   *)
(* place, so the log does not depend on the value.  The pattern of the     *)
(* code wants a "&" in front of PASSKEY and misses a PASSKEY that comes    *)
(* right after the mount point.                                            *)
(***************************************************************************)
RECURSIVE Masked(_)
\* the path with the value of every PASSKEY field replaced by the mask
Masked(path) ==
    IF path = <<>> THEN <<>>
    ELSE IF Len(path) >= 2 /\ path[1] = "PASSKEY" /\ path[2] = "="
         THEN <<"PASSKEY", "=">> \o Mask \o Masked(SkipValue(SubSeq(path, 3, Len(path))))
         ELSE <<Head(path)>> \o Masked(Tail(path))

\* the values the PASSKEY fields of the path carry
PasskeyValues(path) ==
    {SubSeq(path, i + 2, Len(path) - Len(SkipValue(SubSeq(path, i + 2, Len(path))))) :
        i \in {j \in 1..(Len(path) - 1) : path[j] = "PASSKEY" /\ path[j + 1] = "="}}

\* the characters occur in the text, one after the other
Occurs(chars, text) ==
    \E i \in 1..(Len(text) - Len(chars) + 1) :
        SubSeq(text, i, i + Len(chars) - 1) = chars

\* the text of a log line: the path or the value it shows
LineText(line) == IF Len(line) >= 3 THEN line[3] ELSE IF Len(line) = 2 THEN line[2] ELSE <<>>

C14_PasskeyRedacted ==
    \A a \in DOMAIN handlers :
        (handlers[a].pc # "idle" /\ PasskeyValues(handlers[a].path) # {}) =>
            /\ site.be_verbose =>
                   handlers[a].log[1] = <<"sample submitted by remote_adress",
                                          RemoteAdress(a), Masked(handlers[a].path)>>
            /\ \A i \in DOMAIN handlers[a].log :
                   \A k \in PasskeyValues(handlers[a].path) :
                       ~Occurs(k, LineText(handlers[a].log[i]))

(***************************************************************************)
(* C15: calculateWindChill(T, W) is T for every T > 40 or W < 5 (T = 45,   *)
(* W = 10 gives 45); so a report with tempf <= 40, windspeedmph < 5 and no *)
(* humidity leaves feelsLike at the outdoor temperature.                   *)
(***************************************************************************)
Called == calc # <<>>

C15_WindChillBypassed ==
    /\ (Called /\ calc.windChill # <<>>
               /\ (calc.tempF > 40000 \/ calc.windSpeedMph < 5000))
       => calc.windChill = <<calc.tempF>>
    /\ (Called /\ calc.windChill # <<>>
               /\ calc.tempF = 45000 /\ calc.windSpeedMph = 10000)
       => calc.windChill = <<45000>>
    /\ (Served /\ Parses(ReqValues, "tempf") /\ Value(ReqValues, "tempf") <= 40000
               /\ Parses(ReqValues, "windspeedmph")
               /\ Value(ReqValues, "windspeedmph") < 5000
               /\ ~Has(ReqValues, "humidity"))
       => HasValue(registry, TempSeries(ReqRemote, "feelsLike"), Value(ReqValues, "tempf"))

\* the wind chill was asked for 39 F at 3 mph and is 39, and the report of
\* the same readings without humidity left feelsLike at 39
C15_Witness ==
    /\ Called /\ calc.tempF = 39000 /\ calc.windSpeedMph = 3000
    /\ calc.windChill = <<39000>>
    /\ Served /\ ~Has(ReqValues, "humidity")
    /\ Value(ReqValues, "tempf") = 39000 /\ Value(ReqValues, "windspeedmph") = 3000
    /\ HasValue(registry, TempSeries(ReqRemote, "feelsLike"), 39000)

(***************************************************************************)
(* C16: calculateHeatIndex(T, RH) is T for every T < 80 and every RH       *)
(* (T = 75, RH = 90 gives 75).                                             *)
(***************************************************************************)
C16_HeatIndexBelow80 ==
    (Called /\ calc.heatIndex # <<>> /\ calc.tempF < 80000)
    => calc.heatIndex = <<calc.tempF>>

\* the heat index was asked for 75 F at 90 percent
C16_Witness ==
    /\ Called /\ calc.tempF = 75000 /\ calc.rh = 90000
    /\ calc.heatIndex = <<75000>>

(***************************************************************************)
(* C17: for every slot the three presence checks are independent: without  *)
(* soilhumX the humidity and battery series of sensor soilX are gone after *)
(* the call, without humidityX the humidity series of sensor X is gone,    *)
(* whatever the other trigger fields do; and a trigger field that is       *)
(* present sets its own series only.  The removals of the code name two    *)
(* of the three labels and remove nothing (as for C1).                     *)
(***************************************************************************)
\* the trigger fields of slot i, each with the series it governs
SlotTriggers(remote, i) ==
    {<<"temp" \o Itoa(i) \o "f", {TempSeries(remote, Itoa(i)), BattSeries(remote, Itoa(i))}>>,
     <<"soilhum" \o Itoa(i),
       {HumSeries(remote, "soil" \o Itoa(i)), BattSeries(remote, "soil" \o Itoa(i))}>>,
     <<"humidity" \o Itoa(i), {HumSeries(remote, Itoa(i))}>>}

\* a trigger field that is present creates its own series, and a series
\* that comes into being or changes belongs to a trigger that is present
SetsOwnSeriesOnly(remote, values, i) ==
    \A t \in SlotTriggers(remote, i) :
        /\ Has(values, t[1]) => \A k \in t[2] : Present(registry, k)
        /\ ~Has(values, t[1]) =>
               \A k \in t[2] : Present(registry, k) => Untouched(before, registry, k)

C17_SlotChecksIndependent ==
    Served =>
        \A i \in Slots :
            /\ ~Has(ReqValues, "soilhum" \o Itoa(i)) =>
                   /\ ~Present(registry, HumSeries(ReqRemote, "soil" \o Itoa(i)))
                   /\ ~Present(registry, BattSeries(ReqRemote, "soil" \o Itoa(i)))
            /\ ~Has(ReqValues, "humidity" \o Itoa(i)) =>
                   ~Present(registry, HumSeries(ReqRemote, Itoa(i)))
            /\ SetsOwnSeriesOnly(ReqRemote, ReqValues, i)

(***************************************************************************)
(* C18: of a field that comes several times only the first value counts:   *)
(* the registry after the request is the registry the same report makes    *)
(* with every field cut down to its first value, whatever the later values *)
(* are.                                                                    *)
(***************************************************************************)
FirstOnly(values) == [k \in DOMAIN values |-> <<values[k][1]>>]

C18_FirstValueOnly ==
    \A a \in DOMAIN handlers :
        (handlers[a].pc = "done" /\ Alone) =>
            registry = Parse(before, RemoteAdress(a), site.name,
                             FirstOnly(handlers[a].values)).registry

\* tempf came as 60 and then as x, and the outdoor temperature is 60
C18_Witness ==
    \E a \in DOMAIN handlers :
        /\ handlers[a].pc = "done" /\ Alone
        /\ Has(handlers[a].values, "tempf")
        /\ handlers[a].values["tempf"] = <<<<"6", "0">>, <<"x">>>>
        /\ HasValue(registry, TempSeries(RemoteAdress(a), "outdoor"), 60000)

(***************************************************************************)
(* C19: a call for remote address r creates, changes and removes only      *)
(* series labelled with r and with the station name of the exporter; the   *)
(* series of every other remote address are as they were.                  *)
(***************************************************************************)
C19_Isolation ==
    Served =>
        \A k \in (DOMAIN before) \cup (DOMAIN registry) :
            ~Untouched(before, registry, k) =>
                /\ k[2][1] = ReqRemote
                /\ k[2][2] = site.name

\* the second station reported after the first: its own series came into
\* being and the series of the first are as they were
C19_Witness ==
    /\ calls = 2
    /\ \E k \in DOMAIN before : k[2][1] # ReqRemote /\ before[k] # 0
    /\ \A k \in DOMAIN before : k[2][1] # ReqRemote => Untouched(before, registry, k)
    /\ \E k \in DOMAIN registry :
          k[2][1] = ReqRemote /\ ~Present(before, k) /\ registry[k] # 0

(***************************************************************************)
(* C20: two calls for different remote addresses whose gauge operations    *)
(* interleave in any order leave the registry that the two calls leave     *)
(* when one runs after the other, in either order.                         *)
(***************************************************************************)
AllDone == \A a \in DOMAIN handlers : handlers[a].pc = "done"

\* the call of connection a, and then the call of connection b
OneAfterTheOther(a, b) ==
    Parse(Parse(before, RemoteAdress(a), site.name, handlers[a].values).registry,
          RemoteAdress(b), site.name, handlers[b].values).registry

\* the host of a connection's remote address
Host(a) == a[1]

C20_InterleavingIsSerial ==
    AllDone =>
        \A a, b \in DOMAIN handlers :
            (Host(a) # Host(b)) => registry = OneAfterTheOther(a, b)

\* both calls have returned, each ran gauge operations while the other was
\* in the middle of its own, and each left a reading in the registry
C20_Witness ==
    /\ AllDone
    /\ Cardinality(DOMAIN handlers) = 2
    /\ \A a \in DOMAIN handlers :
          /\ handlers[a].overlapped
          /\ \E k \in DOMAIN registry :
                /\ k[2][1] = Host(a)
                /\ registry[k] # 0 /\ ~HasValue(before, k, registry[k])

====
